---- MODULE Spec2Model ----
(***************************************************************************)
(* A model of tuf/keys.py: the key records, the keyid derivation, the      *)
(* metadata-format conversions and the signing / verification dispatch.    *)
(*                                                                         *)
(* Python strings are modelled as sequences of character codes: a hex      *)
(* digit is its value 0..15, every other character is a code above 15      *)
(* (45 is the dash that opens a PEM header).  The empty string is << >>.   *)
(* Byte strings are sequences of 0..255.  Python dictionaries that can be  *)
(* shared between records (the 'keyval' dictionaries) live in a heap and   *)
(* are referred to by address.                                             *)
(***************************************************************************)
EXTENDS Integers, Sequences, FiniteSets, TLC

\* ---------------------------------------------------------------- bounds
\* Number of distinct key pairs the crypto providers can hand out.
MaxKeyId == 2
\* Number of distinct data values that are signed and verified.
MaxData == 2

\* ------------------------------------------------------ program constants
\* 'bits' must be an integer object, with a minimum value of 2048.
MIN_RSA_KEY_BITS == 2048
\* 'bits' must be ... a multiple of 256.
RSA_KEY_BITS_MULTIPLE == 256
_DEFAULT_RSA_KEY_BITS == 3072

_SUPPORTED_RSA_CRYPTO_LIBRARIES == {"pycrypto"}
_SUPPORTED_ED25519_CRYPTO_LIBRARIES == {"ed25519", "pynacl"}
_KEY_ID_HASH_ALGORITHM == "sha256"

KeyIds == 1..MaxKeyId
Data == 1..MaxData

\* The 'bits' arguments tried: too small, not a multiple of 256, and good.
BitsValues == {1024, 2000, MIN_RSA_KEY_BITS, MIN_RSA_KEY_BITS + 1,
               MIN_RSA_KEY_BITS + RSA_KEY_BITS_MULTIPLE, _DEFAULT_RSA_KEY_BITS}

\* Key types that pass structural validation; "bogus" names no algorithm.
KeyTypes == {"rsa", "ed25519", "bogus"}

VARIABLES
  _RSA_CRYPTO_LIBRARY,          \* tuf.conf.RSA_CRYPTO_LIBRARY, read at import
  _ED25519_CRYPTO_LIBRARY,      \* tuf.conf.ED25519_CRYPTO_LIBRARY, read at import
  _available_crypto_libraries,  \* the libraries whose import succeeded
  heap,                         \* the 'keyval' dictionaries, by address
  key,                          \* the key record the caller holds
  meta,                         \* the metadata-format record the caller holds
  sig,                          \* the signature record the caller holds
  call                          \* the last call: its arguments and its outcome

vars == <<_RSA_CRYPTO_LIBRARY, _ED25519_CRYPTO_LIBRARY,
          _available_crypto_libraries, heap, key, meta, sig, call>>

conf == <<_RSA_CRYPTO_LIBRARY, _ED25519_CRYPTO_LIBRARY,
          _available_crypto_libraries>>

\* ------------------------------------------------------------- binascii
RECURSIVE hexlify(_)
\* binascii.hexlify: two hex digits per byte, high nibble first.
hexlify(bytes) ==
  IF bytes = << >> THEN << >>
  ELSE <<Head(bytes) \div 16, Head(bytes) % 16>> \o hexlify(Tail(bytes))

IsHexText(text) ==
  /\ Len(text) % 2 = 0
  /\ \A i \in 1..Len(text) : text[i] \in 0..15

RECURSIVE HexBytes(_)
HexBytes(text) ==
  IF text = << >> THEN << >>
  ELSE <<16 * text[1] + text[2]>> \o HexBytes(Tail(Tail(text)))

\* binascii.unhexlify: TypeError on an odd-length or a non-hexadecimal string.
unhexlify(text) ==
  IF IsHexText(text) THEN [err |-> "none", val |-> HexBytes(text)]
  ELSE [err |-> "TypeError", val |-> << >>]

\* ------------------------------------------------- collaborators (tuf.*)
\* One entry of the trace of collaborator routines a call went through.
\* 'lib' is the crypto library a provider routine ran on, 'private' the
\* private component of an object handed to the canonicalizer.
Routine(fn, lib, private) == [fn |-> fn, lib |-> lib, private |-> private]

Malformed == "malformed"
Dict == "dict"

\* tuf.formats.RSAKEYBITS_SCHEMA: an integer with a minimum value of 2048.
RSAKEYBITS_SCHEMA_matches(bits) == bits >= MIN_RSA_KEY_BITS
\* tuf.formats.KEYTYPE_SCHEMA, KEYVAL_SCHEMA, KEY_SCHEMA, ANYKEY_SCHEMA and
\* SIGNATURE_SCHEMA: the object has the shape of the schema.
KEYTYPE_SCHEMA_matches(keytype) == keytype \in KeyTypes
KEYVAL_SCHEMA_matches(key_value) == key_value.shape = Dict
KEY_SCHEMA_matches(key_metadata) ==
  /\ key_metadata.shape = Dict
  /\ KEYTYPE_SCHEMA_matches(key_metadata.keytype)
  /\ KEYVAL_SCHEMA_matches(key_metadata.keyval)
ANYKEY_SCHEMA_matches(key_dict) ==
  /\ key_dict.shape = Dict
  /\ KEYTYPE_SCHEMA_matches(key_dict.keytype)
  /\ KEYVAL_SCHEMA_matches(key_dict.keyval)
SIGNATURE_SCHEMA_matches(signature) ==
  /\ signature.shape = Dict
  /\ IsHexText(signature.sig)

\* tuf.formats.encode_canonical of {'keytype': .., 'keyval': {'private': ..,
\* 'public': ..}}: the keys in sorted order, the values delimited.
KeyTypeChars(keytype) ==
  CASE keytype = "rsa" -> <<114>>
    [] keytype = "ed25519" -> <<101>>
    [] OTHER -> <<98>>
encode_canonical(key_meta) ==
  <<123>> \o KeyTypeChars(key_meta.keytype) \o <<44>>
          \o key_meta.keyval.private \o <<44>>
          \o key_meta.keyval.public \o <<125>>

RECURSIVE DigestFold(_, _)
DigestFold(h, bytes) ==
  IF bytes = << >> THEN h
  ELSE DigestFold((h * 31 + Head(bytes) + 1) % 65536, Tail(bytes))
\* tuf.hash.digest(algorithm).update(data).hexdigest(): a fixed function
\* from the bytes that were fed to a lower-case hex string.
hexdigest(algorithm, update_data) ==
  LET h == DigestFold(IF algorithm = "sha256" THEN 7 ELSE 11, update_data)
  IN hexlify(<<h \div 256, h % 256>>)

\* PEM text of the public / private half of RSA key pair i.
PemPublic(i) == <<45, 1, i>>
PemPrivate(i) == <<45, 2, i>>
\* Raw bytes of the public / private half of Ed25519 key pair i.
RawPublic(i) == <<128 + i>>
RawPrivate(i) == <<i>>

RSA_METHOD == "PyCrypto-PKCS#1 PSS"
ED25519_METHOD == "ed25519"

\* tuf.pycrypto_keys.generate_rsa_public_and_private(bits): ValueError if
\* 'bits' is less than 1024 or not a multiple of 256.  'rnd' is the key
\* pair the generator happens to draw.
pycrypto_generate_rsa_public_and_private(bits, rnd) ==
  IF bits < 1024 \/ bits % RSA_KEY_BITS_MULTIPLE # 0
  THEN [err |-> "ValueError", public |-> << >>, private |-> << >>]
  ELSE [err |-> "none", public |-> PemPublic(rnd), private |-> PemPrivate(rnd)]

\* The secret a private key text stands for; 0 when it is no private key.
PemSecret(private) ==
  IF Len(private) = 3 /\ private[1] = 45 /\ private[2] = 2 THEN private[3] ELSE 0
RawSecret(private) ==
  IF Len(private) = 1 /\ private[1] \in KeyIds THEN private[1] ELSE 0

\* tuf.pycrypto_keys.create_signature(private, data) -> (sig, method)
pycrypto_create_signature(private, data) ==
  [sig |-> <<PemSecret(private), data>>, method |-> RSA_METHOD]

\* tuf.pycrypto_keys.verify_signature(sig, method, public, data) -> bool;
\* an error when 'method' names a scheme the engine does not recognize.
pycrypto_verify_signature(sig_bytes, method, public, data) ==
  IF method # RSA_METHOD THEN [err |-> "UnknownMethodError", valid |-> FALSE]
  ELSE [err |-> "none",
        valid |-> \E i \in KeyIds : public = PemPublic(i) /\ sig_bytes = <<i, data>>]

\* tuf.ed25519_keys.generate_public_and_private(use_pynacl) -> raw bytes
ed25519_generate_public_and_private(use_pynacl, rnd) ==
  [public |-> RawPublic(rnd), private |-> RawPrivate(rnd)]

\* tuf.ed25519_keys.create_signature(public, private, data, use_pynacl):
\* both engines compute the same Ed25519 signature.
ed25519_create_signature(public, private, data, use_pynacl) ==
  [sig |-> <<RawSecret(private), data>>, method |-> ED25519_METHOD]

\* tuf.ed25519_keys.verify_signature(public, method, sig, data, use_pynacl)
ed25519_verify_signature(public, method, sig_bytes, data, use_pynacl) ==
  IF method # ED25519_METHOD THEN [err |-> "UnknownMethodError", valid |-> FALSE]
  ELSE [err |-> "none",
        valid |-> \E i \in KeyIds : public = RawPublic(i) /\ sig_bytes = <<i, data>>]

Ed25519Lib(use_pynacl) == IF use_pynacl THEN "pynacl" ELSE "ed25519"

\* ------------------------------------------------------------- keys.py
NoCalls == << >>
KeyVal(public, private) == [shape |-> Dict, public |-> public, private |-> private]
NoKeyVal == [shape |-> Malformed, public |-> << >>, private |-> << >>]

\* _check_crypto_libraries(): "none", or the error it raises.
_check_crypto_libraries ==
  IF _RSA_CRYPTO_LIBRARY \notin _SUPPORTED_RSA_CRYPTO_LIBRARIES
  THEN "CryptoError"
  ELSE IF _ED25519_CRYPTO_LIBRARY \notin _SUPPORTED_ED25519_CRYPTO_LIBRARIES
  THEN "CryptoError"
  ELSE IF _RSA_CRYPTO_LIBRARY \notin _available_crypto_libraries
  THEN "CryptoError"
  ELSE IF _ED25519_CRYPTO_LIBRARY \notin _available_crypto_libraries
  THEN "CryptoError"
  ELSE "none"

CheckLibs == Routine("_check_crypto_libraries", "", << >>)
CheckMatch(schema) == Routine(schema, "", << >>)

MetaFail(err, calls) ==
  [err |-> err, calls |-> calls, keytype |-> "", keyval |-> NoKeyVal, same |-> FALSE]

\* create_in_metadata_format up to its test of when the private key is kept.
MetadataFormat(keytype, key_value, keep_private) ==
  IF ~KEYTYPE_SCHEMA_matches(keytype)
  THEN MetaFail("FormatError", <<CheckMatch("KEYTYPE_SCHEMA")>>)
  ELSE IF ~KEYVAL_SCHEMA_matches(key_value)
  THEN MetaFail("FormatError", <<CheckMatch("KEYTYPE_SCHEMA"), CheckMatch("KEYVAL_SCHEMA")>>)
  ELSE IF keep_private
  THEN [err |-> "none",
        calls |-> <<CheckMatch("KEYTYPE_SCHEMA"), CheckMatch("KEYVAL_SCHEMA")>>,
        keytype |-> keytype, keyval |-> key_value, same |-> TRUE]
  ELSE [err |-> "none",
        calls |-> <<CheckMatch("KEYTYPE_SCHEMA"), CheckMatch("KEYVAL_SCHEMA")>>,
        keytype |-> keytype, keyval |-> KeyVal(key_value.public, << >>),
        same |-> FALSE]

\* A bug create_in_metadata_format could have: 'or' in place of 'and'.
M_or_create_in_metadata_format(keytype, key_value, private) ==
  MetadataFormat(keytype, key_value,
                 private = TRUE \/ key_value.private # << >>)

\* Another bug it could have: the private key is always left out.
M_strip_create_in_metadata_format(keytype, key_value, private) ==
  MetadataFormat(keytype, key_value, FALSE)

\* create_in_metadata_format(keytype, key_value, private).  'same' tells
\* that the 'keyval' of the result is the very dictionary passed in.
create_in_metadata_format(keytype, key_value, private) ==
  MetadataFormat(keytype, key_value,
                 private = TRUE /\ key_value.private # << >>)

\* The keyid of what create_in_metadata_format returned.
KeyidOfMeta(rsakey_meta) ==
  IF rsakey_meta.err # "none"
  THEN [err |-> rsakey_meta.err, calls |-> rsakey_meta.calls, keyid |-> << >>]
  ELSE [err |-> "none",
        calls |-> rsakey_meta.calls
                  \o <<Routine("encode_canonical", "", rsakey_meta.keyval.private),
                       Routine("hash.digest", "", << >>)>>,
        keyid |-> hexdigest(_KEY_ID_HASH_ALGORITHM,
                            encode_canonical([keytype |-> rsakey_meta.keytype,
                                               keyval |-> rsakey_meta.keyval]))]

\* A bug _get_keyid could have: the private key is kept in what is hashed.
M_get_keyid(keytype, key_value) ==
  KeyidOfMeta(create_in_metadata_format(keytype, key_value, TRUE))

\* _get_keyid(keytype, key_value)
_get_keyid(keytype, key_value) ==
  KeyidOfMeta(create_in_metadata_format(keytype, key_value, FALSE))

KeyFail(err, calls) ==
  [err |-> err, calls |-> calls, keytype |-> "", keyid |-> << >>, keyval |-> NoKeyVal]

\* The tail of both generate functions: the keyid is taken from
\* {'public': public, 'private': ''} and the private key is stored after.
BuildKey(keytype, public, private, calls) ==
  LET kid == _get_keyid(keytype, KeyVal(public, << >>))
  IN IF kid.err # "none" THEN KeyFail(kid.err, calls \o kid.calls)
     ELSE [err |-> "none", calls |-> calls \o kid.calls, keytype |-> keytype,
           keyid |-> kid.keyid, keyval |-> KeyVal(public, private)]

\* generate_rsa_key once 'bits' and the libraries have been checked.
GenerateRsa(bits, rnd) ==
  IF _RSA_CRYPTO_LIBRARY = "pycrypto"
  THEN LET gen == pycrypto_generate_rsa_public_and_private(bits, rnd)
           calls == <<CheckMatch("RSAKEYBITS_SCHEMA"), CheckLibs,
                      Routine("generate_rsa_public_and_private", "pycrypto", << >>)>>
       IN IF gen.err # "none" THEN KeyFail(gen.err, calls)
          ELSE BuildKey("rsa", gen.public, gen.private, calls)
  ELSE KeyFail("ValueError", <<CheckMatch("RSAKEYBITS_SCHEMA"), CheckLibs>>)

\* A bug generate_rsa_key could have: the libraries are checked before 'bits'.
M_generate_rsa_key(bits, rnd) ==
  IF _check_crypto_libraries # "none"
  THEN KeyFail(_check_crypto_libraries, <<CheckLibs>>)
  ELSE IF ~RSAKEYBITS_SCHEMA_matches(bits)
  THEN KeyFail("FormatError", <<CheckLibs, CheckMatch("RSAKEYBITS_SCHEMA")>>)
  ELSE GenerateRsa(bits, rnd)

\* generate_rsa_key(bits); 'rnd' is the key pair the provider draws.
generate_rsa_key(bits, rnd) ==
  IF ~RSAKEYBITS_SCHEMA_matches(bits)
  THEN KeyFail("FormatError", <<CheckMatch("RSAKEYBITS_SCHEMA")>>)
  ELSE IF _check_crypto_libraries # "none"
  THEN KeyFail(_check_crypto_libraries, <<CheckMatch("RSAKEYBITS_SCHEMA"), CheckLibs>>)
  ELSE GenerateRsa(bits, rnd)

\* generate_ed25519_key(); 'rnd' is the key pair the provider draws.
generate_ed25519_key(rnd) ==
  IF _check_crypto_libraries # "none"
  THEN KeyFail(_check_crypto_libraries, <<CheckLibs>>)
  ELSE LET use_pynacl == "pynacl" \in _available_crypto_libraries
           gen == ed25519_generate_public_and_private(use_pynacl, rnd)
       IN BuildKey("ed25519", hexlify(gen.public), hexlify(gen.private),
                   <<CheckLibs, Routine("generate_public_and_private",
                                        Ed25519Lib(use_pynacl), << >>)>>)

\* create_from_metadata_format(key_metadata): the 'keyval' of the result is
\* the 'keyval' dictionary of the argument.
create_from_metadata_format(key_metadata) ==
  IF ~KEY_SCHEMA_matches(key_metadata)
  THEN KeyFail("FormatError", <<CheckMatch("KEY_SCHEMA")>>)
  ELSE LET kid == _get_keyid(key_metadata.keytype, key_metadata.keyval)
           calls == <<CheckMatch("KEY_SCHEMA")>> \o kid.calls
       IN IF kid.err # "none" THEN KeyFail(kid.err, calls)
          ELSE [err |-> "none", calls |-> calls,
                keytype |-> key_metadata.keytype, keyid |-> kid.keyid,
                keyval |-> key_metadata.keyval]

SigFail(err, calls) ==
  [err |-> err, calls |-> calls, keyid |-> << >>, method |-> "", sig |-> << >>]

\* The 'ed25519' branch of create_signature, given what public and private
\* key the provider is handed.
SignEd25519(key_dict, public_text, private_text, data, calls) ==
  LET public == unhexlify(public_text)
      private == unhexlify(private_text)
      use_pynacl == /\ _ED25519_CRYPTO_LIBRARY = "pynacl"
                    /\ "pynacl" \in _available_crypto_libraries
      made == ed25519_create_signature(public.val, private.val, data, use_pynacl)
  IN IF public.err # "none" THEN SigFail(public.err, calls)
     ELSE IF private.err # "none" THEN SigFail(private.err, calls)
     ELSE [err |-> "none",
           calls |-> calls \o <<Routine("create_signature",
                                        Ed25519Lib(use_pynacl), << >>)>>,
           keyid |-> key_dict.keyid, method |-> made.method,
           sig |-> hexlify(made.sig)]

\* create_signature up to the choice of the key material that signs.
SignWith(key_dict, public_text, private_text, data) ==
  IF ~ANYKEY_SCHEMA_matches(key_dict)
  THEN SigFail("FormatError", <<CheckMatch("ANYKEY_SCHEMA")>>)
  ELSE IF _check_crypto_libraries # "none"
  THEN SigFail(_check_crypto_libraries, <<CheckMatch("ANYKEY_SCHEMA"), CheckLibs>>)
  ELSE LET calls == <<CheckMatch("ANYKEY_SCHEMA"), CheckLibs>>
       IN IF key_dict.keytype = "rsa"
          THEN IF _RSA_CRYPTO_LIBRARY = "pycrypto"
               THEN LET made == pycrypto_create_signature(private_text, data)
                    IN [err |-> "none",
                        calls |-> calls \o <<Routine("create_signature",
                                                     "pycrypto", << >>)>>,
                        keyid |-> key_dict.keyid, method |-> made.method,
                        sig |-> hexlify(made.sig)]
               ELSE SigFail("Error", calls)
          ELSE IF key_dict.keytype = "ed25519"
          THEN SignEd25519(key_dict, public_text, private_text, data, calls)
          ELSE SigFail("TypeError('Invalid key type.')", calls)

\* A bug create_signature could have: the public key is taken for the
\* private key.
M_create_signature(key_dict, data) ==
  SignWith(key_dict, key_dict.keyval.public, key_dict.keyval.public, data)

\* Another bug it could have: the libraries are checked before 'key_dict'.
M_late_check_create_signature(key_dict, data) ==
  IF _check_crypto_libraries # "none"
  THEN SigFail(_check_crypto_libraries, <<CheckLibs>>)
  ELSE SignWith(key_dict, key_dict.keyval.public, key_dict.keyval.private, data)

\* create_signature(key_dict, data)
create_signature(key_dict, data) ==
  SignWith(key_dict, key_dict.keyval.public, key_dict.keyval.private, data)

VerifyFail(err, calls) == [err |-> err, calls |-> calls, valid |-> FALSE]

\* A bug verify_signature could have: the provider's answer is dropped.
M_Verdict(answer, calls) ==
  [err |-> "none", calls |-> calls, valid |-> TRUE]

\* What verify_signature returns once the provider has answered: the
\* provider's error, or 'valid_signature'.
Verdict(answer, calls) ==
  IF answer.err # "none" THEN VerifyFail(answer.err, calls)
  ELSE [err |-> "none", calls |-> calls, valid |-> answer.valid]

\* The dispatch of verify_signature on the key type, up to what its last
\* 'else' does.
VerifyBranches(key_dict, method, sig_bytes, data, calls, otherwise) ==
  IF key_dict.keytype = "rsa"
  THEN IF _RSA_CRYPTO_LIBRARY = "pycrypto"
       THEN Verdict(pycrypto_verify_signature(sig_bytes, method,
                                              key_dict.keyval.public, data),
                    calls \o <<Routine("verify_signature", "pycrypto", << >>)>>)
       ELSE VerifyFail("Error", calls)
  ELSE IF key_dict.keytype = "ed25519"
  THEN LET public == unhexlify(key_dict.keyval.public)
           use_pynacl == /\ _RSA_CRYPTO_LIBRARY = "pynacl"
                         /\ "pynacl" \in _available_crypto_libraries
       IN IF public.err # "none" THEN VerifyFail(public.err, calls)
          ELSE Verdict(ed25519_verify_signature(public.val, method, sig_bytes,
                                                data, use_pynacl),
                       calls \o <<Routine("verify_signature",
                                          Ed25519Lib(use_pynacl), << >>)>>)
  ELSE otherwise

\* A bug the dispatch could have: no 'else', an unknown key type falls
\* through to 'return valid_signature'.
M_VerifyDispatch(key_dict, method, sig_bytes, data, calls) ==
  VerifyBranches(key_dict, method, sig_bytes, data, calls,
                 [err |-> "none", calls |-> calls, valid |-> FALSE])

VerifyDispatch(key_dict, method, sig_bytes, data, calls) ==
  VerifyBranches(key_dict, method, sig_bytes, data, calls,
                 VerifyFail("TypeError('Unsupported key type.')", calls))

\* verify_signature(key_dict, signature, data).  The function makes no call
\* of _check_crypto_libraries.
verify_signature(key_dict, signature, data) ==
  IF ~ANYKEY_SCHEMA_matches(key_dict)
  THEN VerifyFail("FormatError", <<CheckMatch("ANYKEY_SCHEMA")>>)
  ELSE IF ~SIGNATURE_SCHEMA_matches(signature)
  THEN VerifyFail("FormatError",
                  <<CheckMatch("ANYKEY_SCHEMA"), CheckMatch("SIGNATURE_SCHEMA")>>)
  ELSE LET calls == <<CheckMatch("ANYKEY_SCHEMA"), CheckMatch("SIGNATURE_SCHEMA")>>
           sig_bytes == unhexlify(signature.sig)
       IN IF sig_bytes.err # "none" THEN VerifyFail(sig_bytes.err, calls)
          ELSE VerifyDispatch(key_dict, signature.method, sig_bytes.val, data, calls)

\* ------------------------------------------------------- the caller's state
\* A key record by value, with 'gen': it is a record generate_rsa_key or
\* generate_ed25519_key returned, unchanged since.
Snap(keytype, keyid, public, private, gen) ==
  [keytype |-> keytype, keyid |-> keyid, public |-> public,
   private |-> private, gen |-> gen]
NoSnap == Snap("", << >>, << >>, << >>, FALSE)

\* Addresses are named canonically: the 'keyval' dictionary of the held key
\* record is at 1, the one of the held metadata record at 2, or at 1 when
\* both records refer to the same dictionary.
Addr == {1, 2}
FreeCell == [used |-> FALSE, public |-> << >>, private |-> << >>]
Cell(key_value) ==
  [used |-> TRUE, public |-> key_value.public, private |-> key_value.private]

NoKey == [held |-> FALSE, keytype |-> "", keyid |-> << >>, keyval |-> 0,
          gen |-> FALSE, intact |-> FALSE]
NoMeta == [held |-> FALSE, keytype |-> "", keyval |-> 0, src |-> NoSnap,
           private |-> FALSE, intact |-> FALSE]
NoSignature == [shape |-> Malformed, keyid |-> << >>, method |-> "", sig |-> << >>]
NoSig == [held |-> FALSE, keyid |-> << >>, method |-> "", sig |-> << >>,
          signer |-> NoSnap, data |-> 0, lib |-> ""]
NoCall == [op |-> "none", err |-> "none", calls |-> NoCalls, ret |-> "none",
           valid |-> FALSE, from |-> "", sigfrom |-> "", bits |-> 0,
           arg |-> NoSnap, flag |-> FALSE, signature |-> NoSignature,
           data |-> 0]

\* The dictionary at an address, as a value.
Deref(a) == IF a = 0 THEN NoKeyVal ELSE KeyVal(heap[a].public, heap[a].private)
KeySnap == Snap(key.keytype, key.keyid, Deref(key.keyval).public,
                Deref(key.keyval).private, key.gen)
KeyDict(k) ==
  [shape |-> Dict, keytype |-> k.keytype, keyid |-> k.keyid,
   keyval |-> Deref(k.keyval)]
MalformedKeyDict ==
  [shape |-> Malformed, keytype |-> "", keyid |-> << >>, keyval |-> NoKeyVal]
Shared == key.held /\ meta.held /\ key.keyval = meta.keyval

\* The records k and m with their 'keyval' dictionaries kv and mv placed in
\* the heap; 'shared': m refers to the dictionary of k.
Place(k, kv, m, mv, shared) ==
  [key |-> IF k.held THEN [k EXCEPT !.keyval = 1] ELSE k,
   meta |-> IF m.held THEN [m EXCEPT !.keyval = IF shared THEN 1 ELSE 2] ELSE m,
   heap |-> [a \in Addr |->
               IF a = 1 THEN (IF k.held THEN Cell(kv) ELSE FreeCell)
               ELSE (IF m.held /\ ~shared THEN Cell(mv) ELSE FreeCell)]]

\* Key material a caller may write down: the text of key pair i of a kind.
PublicText(keytype, i) ==
  IF keytype = "ed25519" THEN hexlify(RawPublic(i)) ELSE PemPublic(i)
PrivateText(keytype, i) ==
  IF keytype = "ed25519" THEN hexlify(RawPrivate(i)) ELSE PemPrivate(i)
LiteralKeys ==
  UNION {{[from |-> "literal", addr |-> 0, keytype |-> kt,
           val |-> KeyVal(PublicText(kt, 1), p)] :
            p \in {<< >>} \cup {PrivateText(kt, i) : i \in KeyIds}} :
         kt \in KeyTypes}
MalformedKeys ==
  {[from |-> "malformed", addr |-> 0, keytype |-> "rsa", val |-> NoKeyVal],
   [from |-> "malformed", addr |-> 0, keytype |-> Malformed,
    val |-> KeyVal(PemPublic(1), << >>)]}
\* The (keytype, key_value) arguments of create_in_metadata_format.
KeyvalArgs ==
  (IF key.held
   THEN {[from |-> "held", addr |-> key.keyval, keytype |-> key.keytype,
          val |-> Deref(key.keyval)]}
   ELSE {}) \cup LiteralKeys \cup MalformedKeys
\* The key_metadata arguments of create_from_metadata_format.
MetaArgs ==
  (IF meta.held
   THEN {[from |-> "held", addr |-> meta.keyval, keytype |-> meta.keytype,
          val |-> Deref(meta.keyval)]}
   ELSE {}) \cup LiteralKeys \cup MalformedKeys
\* The key_dict arguments of create_signature and verify_signature.
KeyArgs ==
  (IF key.held THEN {[from |-> "held", dict |-> KeyDict(key), snap |-> KeySnap]}
   ELSE {})
  \cup {[from |-> "malformed", dict |-> MalformedKeyDict, snap |-> NoSnap]}

\* A well-formed hex string with one digit changed.
Tamper(text) == [text EXCEPT ![1] = (text[1] + 1) % 16]
Signature(keyid, method, text) ==
  [shape |-> Dict, keyid |-> keyid, method |-> method, sig |-> text]
\* The signature arguments of verify_signature.
SignatureArgs ==
  (IF sig.held
   THEN {[from |-> "held", val |-> Signature(sig.keyid, sig.method, sig.sig)],
         [from |-> "tampered",
          val |-> Signature(sig.keyid, sig.method, Tamper(sig.sig))]}
   ELSE {})
  \cup {[from |-> "literal", val |-> Signature(<< >>, m, hexlify(<<1, 1>>))] :
          m \in {RSA_METHOD, ED25519_METHOD}}
  \cup {[from |-> "malformed", val |-> NoSignature]}

LibOf(calls) == IF calls = << >> THEN "" ELSE calls[Len(calls)].lib

Init ==
  /\ _RSA_CRYPTO_LIBRARY \in {"pycrypto", "pynacl"}
  /\ _ED25519_CRYPTO_LIBRARY \in {"ed25519", "pynacl", "bogus"}
  /\ _available_crypto_libraries \in
       {{"ed25519"} \cup s : s \in SUBSET {"pycrypto", "pynacl"}}
  /\ heap = [a \in Addr |-> FreeCell]
  /\ key = NoKey
  /\ meta = NoMeta
  /\ sig = NoSig
  /\ call = NoCall

\* The caller is between two calls.
Idle == call.op = "none"

\* What a call that returned a key record leaves with the caller.
ReturnKey(r, gen) ==
  [held |-> TRUE, keytype |-> r.keytype, keyid |-> r.keyid, keyval |-> 1,
   gen |-> gen, intact |-> TRUE]
\* The caller's state once a call has returned the key record r, whose
\* 'keyval' is a new dictionary.
KeepNewKey(r, gen) ==
  LET p == Place(ReturnKey(r, gen), r.keyval, meta, Deref(meta.keyval), FALSE)
  IN /\ key' = p.key
     /\ meta' = p.meta
     /\ heap' = p.heap

GenerateRsaKey(bits, rnd) ==
  LET r == generate_rsa_key(bits, rnd)
  IN /\ Idle
     /\ call' = [NoCall EXCEPT !.op = "generate_rsa_key", !.bits = bits,
                               !.err = r.err, !.calls = r.calls,
                               !.ret = IF r.err = "none" THEN "key" ELSE "none"]
     /\ IF r.err = "none" THEN KeepNewKey(r, TRUE)
        ELSE UNCHANGED <<key, meta, heap>>
     /\ UNCHANGED <<conf, sig>>

GenerateEd25519Key(rnd) ==
  LET r == generate_ed25519_key(rnd)
  IN /\ Idle
     /\ call' = [NoCall EXCEPT !.op = "generate_ed25519_key",
                               !.err = r.err, !.calls = r.calls,
                               !.ret = IF r.err = "none" THEN "key" ELSE "none"]
     /\ IF r.err = "none" THEN KeepNewKey(r, TRUE)
        ELSE UNCHANGED <<key, meta, heap>>
     /\ UNCHANGED <<conf, sig>>

\* create_in_metadata_format(x.keytype, x.val, private), x.val being the
\* 'keyval' of the held key or a dictionary written down for the call.  The
\* caller keeps the result in place of the signature it held.
CreateInMetadataFormat(x, private) ==
  LET r == create_in_metadata_format(x.keytype, x.val, private)
      m == [held |-> TRUE, keytype |-> r.keytype, keyval |-> 2,
            src |-> IF x.from = "held" THEN KeySnap ELSE NoSnap,
            private |-> private, intact |-> TRUE]
      p == Place(key, Deref(key.keyval), m, r.keyval, r.same /\ x.from = "held")
  IN /\ Idle
     /\ call' = [NoCall EXCEPT !.op = "create_in_metadata_format",
                               !.from = x.from, !.flag = private,
                               !.arg = Snap(x.keytype, << >>, x.val.public,
                                            x.val.private, FALSE),
                               !.err = r.err, !.calls = r.calls,
                               !.ret = IF r.err = "none" THEN "meta" ELSE "none"]
     /\ IF r.err = "none"
        THEN /\ meta' = p.meta
             /\ heap' = p.heap
             /\ sig' = NoSig
        ELSE UNCHANGED <<meta, heap, sig>>
     /\ UNCHANGED <<conf, key>>

\* create_from_metadata_format(x), x being the held metadata record or one
\* written down for the call.
CreateFromMetadataFormat(x) ==
  LET r == create_from_metadata_format(
             [shape |-> IF x.from = "malformed" THEN Malformed ELSE Dict,
              keytype |-> x.keytype, keyval |-> x.val])
      p == Place(ReturnKey(r, FALSE), r.keyval, meta, Deref(meta.keyval),
                 x.from = "held")
  IN /\ Idle
     /\ call' = [NoCall EXCEPT !.op = "create_from_metadata_format",
                               !.from = x.from,
                               !.arg = Snap(x.keytype, << >>, x.val.public,
                                            x.val.private, FALSE),
                               !.err = r.err, !.calls = r.calls,
                               !.ret = IF r.err = "none" THEN "key" ELSE "none"]
     /\ IF r.err = "none"
        THEN /\ key' = p.key
             /\ meta' = p.meta
             /\ heap' = p.heap
        ELSE UNCHANGED <<key, meta, heap>>
     /\ UNCHANGED <<conf, sig>>

\* create_signature(x.dict, data).  The caller keeps the result in place of
\* the metadata record it held.
CreateSignature(x, data) ==
  LET r == create_signature(x.dict, data)
      p == Place(key, Deref(key.keyval), NoMeta, NoKeyVal, FALSE)
  IN /\ Idle
     /\ call' = [NoCall EXCEPT !.op = "create_signature", !.from = x.from,
                               !.arg = x.snap, !.data = data,
                               !.err = r.err, !.calls = r.calls,
                               !.ret = IF r.err = "none" THEN "sig" ELSE "none"]
     /\ IF r.err = "none"
        THEN /\ sig' = [held |-> TRUE, keyid |-> r.keyid, method |-> r.method,
                        sig |-> r.sig, signer |-> x.snap, data |-> data,
                        lib |-> LibOf(r.calls)]
             /\ meta' = p.meta
             /\ heap' = p.heap
        ELSE UNCHANGED <<sig, meta, heap>>
     /\ UNCHANGED <<conf, key>>

VerifySignature(x, s, data) ==
  LET r == verify_signature(x.dict, s.val, data)
  IN /\ Idle
     /\ call' = [NoCall EXCEPT !.op = "verify_signature", !.from = x.from,
                               !.sigfrom = s.from, !.arg = x.snap,
                               !.signature = s.val, !.data = data,
                               !.err = r.err, !.calls = r.calls,
                               !.valid = r.valid,
                               !.ret = IF r.err = "none" THEN "bool" ELSE "none"]
     /\ UNCHANGED <<conf, heap, key, meta, sig>>

\* The caller has looked at the outcome of the call and goes on.
Continue ==
  /\ call.op \notin {"none", "mutate"}
  /\ call' = NoCall
  /\ UNCHANGED <<conf, heap, key, meta, sig>>

\* As its last step, between two calls or right after a call has returned,
\* the caller changes a 'keyval' dictionary it has a reference to: it
\* empties 'private', or it overwrites 'public'.
Mutate(a, field) ==
  /\ call.op # "mutate"
  /\ heap[a].used
  /\ heap' = [heap EXCEPT ![a] =
                IF field = "private"
                THEN [@ EXCEPT !.private = << >>]
                ELSE [@ EXCEPT !.public = <<45>>]]
  /\ heap'[a] # heap[a]
  /\ key' = IF key.held /\ key.keyval = a
            THEN [key EXCEPT !.gen = FALSE, !.intact = FALSE] ELSE key
  /\ meta' = IF meta.held /\ meta.keyval = a
             THEN [meta EXCEPT !.intact = FALSE] ELSE meta
  /\ call' = [NoCall EXCEPT !.op = "mutate"]
  /\ UNCHANGED <<conf, sig>>

Next ==
  \/ \E bits \in BitsValues, rnd \in KeyIds : GenerateRsaKey(bits, rnd)
  \/ \E rnd \in KeyIds : GenerateEd25519Key(rnd)
  \/ \E x \in KeyvalArgs, private \in BOOLEAN : CreateInMetadataFormat(x, private)
  \/ \E x \in MetaArgs : CreateFromMetadataFormat(x)
  \/ \E x \in KeyArgs, data \in Data : CreateSignature(x, data)
  \/ \E x \in KeyArgs, s \in SignatureArgs, data \in Data : VerifySignature(x, s, data)
  \/ \E a \in Addr, field \in {"public", "private"} : Mutate(a, field)
  \/ Continue

Spec == Init /\ [][Next]_vars

\* ------------------------------------------------------------ the claims
ConfigOK == _check_crypto_libraries = "none"
\* The operations that return a key record.
KeyOps == {"generate_rsa_key", "generate_ed25519_key", "create_from_metadata_format"}
\* The entries of a trace that are routines of a crypto provider.
ProviderCalls(calls) == {i \in DOMAIN calls : calls[i].lib # ""}
\* The private components that were handed to the canonicalizer.
Canonicalized(calls) ==
  {calls[i].private : i \in {j \in DOMAIN calls : calls[j].fn = "encode_canonical"}}
\* The two TypeErrors keys.py raises itself, for a key type it has no branch for.
UnsupportedKeyTypeError ==
  {"TypeError('Invalid key type.')", "TypeError('Unsupported key type.')"}
TypeErrors == UnsupportedKeyTypeError \cup {"TypeError"}

\* C1: the keyid depends only on the keytype and the public key.  Whenever
\* generate_rsa_key, generate_ed25519_key or create_from_metadata_format
\* returns a key record with the keytype and the public value of the record
\* the caller held before (itself a returned record), the two keyids are
\* equal, whatever the two private values; and no private value is ever
\* handed to the canonicalizer.
C1_KeyidIgnoresPrivate ==
  [][(call'.op \in KeyOps /\ call'.ret = "key")
       => /\ Canonicalized(call'.calls) \subseteq {<< >>}
          /\ (key.held /\ key.intact /\ key'.keytype = key.keytype
              /\ KeySnap'.public = KeySnap.public)
               => key'.keyid = key.keyid]_vars

\* C1 happens: a record loaded from metadata without the private key has
\* the keyid of the generated record, with its private key, it stems from.
C1_Witness ==
  /\ call.op = "create_from_metadata_format" /\ call.ret = "key"
  /\ call.from = "held" /\ meta.src.gen
  /\ KeySnap.public = meta.src.public
  /\ KeySnap.private = << >> /\ meta.src.private # << >>
  /\ key.keyid = meta.src.keyid

\* The call verified the held signature with the key that made it.
VerifiedOwnSignature ==
  /\ call.op = "verify_signature"
  /\ call.from = "held" /\ call.sigfrom = "held"
  /\ sig.signer = call.arg

\* C2: a signature create_signature made with a generated key over data d
\* verifies, with that key and d, to true, in every configuration that
\* passes the availability check.
C2_SignThenVerify ==
  (VerifiedOwnSignature /\ call.arg.gen /\ call.data = sig.data /\ ConfigOK)
    => (call.err = "none" /\ call.ret = "bool" /\ call.valid)

\* C2 happens: under a configuration that passes the availability check, with
\* 'pynacl' configured, an Ed25519 key's own signature verified to true.
C2_Witness ==
  /\ VerifiedOwnSignature /\ call.arg.gen /\ call.data = sig.data
  /\ ConfigOK
  /\ call.valid
  /\ call.arg.keytype = "ed25519"
  /\ _ED25519_CRYPTO_LIBRARY = "pynacl"

\* C3: a cryptographic mismatch is the result false, not an error: with a
\* generated key, verify_signature returns false for a signature of that key
\* over other data, for a signature another generated key of the same
\* keytype made, and for a signature whose hex text was altered.
C3_MismatchIsFalse ==
  (/\ call.op = "verify_signature" /\ call.from = "held" /\ call.arg.gen
   /\ sig.held /\ sig.signer.keytype = call.arg.keytype
   /\ \/ call.sigfrom = "held" /\ sig.signer = call.arg /\ call.data # sig.data
      \/ call.sigfrom = "held" /\ sig.signer.gen /\ sig.signer # call.arg
      \/ call.sigfrom = "tampered")
    => (call.err = "none" /\ call.ret = "bool" /\ ~call.valid)

\* C3 happens: the signature of the key over the data, one digit altered.
C3_Witness ==
  /\ call.op = "verify_signature" /\ call.from = "held" /\ call.arg.gen
  /\ call.sigfrom = "tampered" /\ sig.signer = call.arg
  /\ call.data = sig.data
  /\ call.err = "none" /\ ~call.valid

\* The call loaded the held metadata record, which create_in_metadata_format
\* made with private=True from a generated key record.
LoadedGeneratedKey ==
  /\ call.op = "create_from_metadata_format" /\ call.from = "held"
  /\ meta.src.gen /\ meta.private /\ meta.intact

\* C4: round trip.  create_from_metadata_format of what
\* create_in_metadata_format(k.keytype, k.keyval, private=True) returned for
\* a generated key record k returns a record equal to k.
C4_RoundTrip ==
  LoadedGeneratedKey
    => /\ call.ret = "key"
       /\ Snap(key.keytype, key.keyid, KeySnap.public, KeySnap.private, TRUE)
            = meta.src

\* C4 happens, for an Ed25519 key.
C4_Witness ==
  /\ LoadedGeneratedKey /\ call.ret = "key"
  /\ key.keytype = "ed25519" /\ KeySnap.private # << >>

\* C5: for a well-formed keytype and keyval, create_in_metadata_format
\* returns the keytype with the keyval, whose private component is kept
\* exactly when private inclusion is requested and the component is not
\* empty, and is "" otherwise; it raises no error.
C5_MetadataFormat ==
  (call.op = "create_in_metadata_format" /\ call.from \in {"held", "literal"})
    => /\ call.err = "none" /\ call.ret = "meta"
       /\ meta.keytype = call.arg.keytype
       /\ Deref(meta.keyval)
            = KeyVal(call.arg.public,
                     IF call.flag /\ call.arg.private # << >>
                     THEN call.arg.private ELSE << >>)

\* C5 happens: private inclusion requested for a keyval without private key.
C5_Witness ==
  /\ call.op = "create_in_metadata_format" /\ call.from = "literal"
  /\ call.flag /\ call.arg.private = << >>
  /\ call.ret = "meta" /\ Deref(meta.keyval).private = << >>

\* C6: create_signature of a well-formed RSA or Ed25519 key record whose
\* private component is empty fails with a TypeError and returns no
\* signature record.
C6_MissingPrivateKey ==
  (/\ call.op = "create_signature" /\ call.from = "held" /\ ConfigOK
   /\ call.arg.keytype \in {"rsa", "ed25519"}
   /\ call.arg.private = << >>)
    => (call.ret = "none" /\ call.err \in TypeErrors)

\* The arguments of the call were all well-formed.
WellFormedCall ==
  /\ call.from # "malformed"
  /\ call.sigfrom # "malformed"
  /\ call.op = "generate_rsa_key" => RSAKEYBITS_SCHEMA_matches(call.bits)

\* C7: with a configuration that does not pass the availability check, a
\* call of generate_rsa_key, generate_ed25519_key, create_signature or
\* verify_signature with well-formed arguments fails with the configuration
\* error and no routine of a crypto provider is invoked.
C7_AvailabilityCheckFirst ==
  (/\ call.op \in {"generate_rsa_key", "generate_ed25519_key",
                   "create_signature", "verify_signature"}
   /\ WellFormedCall /\ ~ConfigOK)
    => (call.err = "CryptoError" /\ ProviderCalls(call.calls) = {})

\* The call signed or verified with a well-formed key record whose keytype
\* is neither RSA nor Ed25519.
UnknownKeyTypeCall ==
  /\ call.op \in {"create_signature", "verify_signature"}
  /\ WellFormedCall
  /\ call.arg.keytype \notin {"rsa", "ed25519"}

\* C8 as stated: create_signature and verify_signature of a key record whose
\* keytype is neither RSA nor Ed25519 fail with the unsupported-key-type
\* error and return nothing.
C8_UnsupportedKeyType ==
  UnknownKeyTypeCall
    => (call.err \in UnsupportedKeyTypeError /\ call.ret = "none")

\* C8 amended: they return nothing and fail with the unsupported-key-type
\* error, except that create_signature fails with the configuration error
\* when the configuration does not pass the availability check.
C8_UnsupportedKeyTypeAmended ==
  UnknownKeyTypeCall
    => /\ call.ret = "none"
       /\ IF call.op = "create_signature" /\ ~ConfigOK
          THEN call.err = "CryptoError"
          ELSE call.err \in UnsupportedKeyTypeError

\* C8 happens, in verify_signature.
C8_Witness ==
  /\ UnknownKeyTypeCall /\ call.op = "verify_signature"
  /\ call.err = "TypeError('Unsupported key type.')"

\* 'bits' is at least 2048 and a multiple of 256.
GoodBits(bits) == bits >= MIN_RSA_KEY_BITS /\ bits % RSA_KEY_BITS_MULTIPLE = 0
\* The call returned a key record with a keyid, a public and a private key.
ReturnedFullKey ==
  /\ call.err = "none" /\ call.ret = "key"
  /\ key.keyid # << >> /\ KeySnap.public # << >> /\ KeySnap.private # << >>

\* C9 as stated, for the configurations that pass the availability check:
\* generate_rsa_key(bits) fails with FormatError, returning nothing, when
\* bits is below 2048 or no multiple of 256, and returns a full key record
\* otherwise.
C9_RsaKeyBits ==
  (call.op = "generate_rsa_key" /\ ConfigOK)
    => IF GoodBits(call.bits) THEN ReturnedFullKey
       ELSE call.err = "FormatError" /\ call.ret = "none"

\* C9 amended: FormatError is for bits below 2048.  From 2048 on, the call
\* fails with the configuration error when the availability check fails;
\* when it passes, the call fails with the ValueError of the key generation
\* routine for bits that is no multiple of 256 and returns a full key record
\* for bits that is one.  A failed call returns nothing.
C9_RsaKeyBitsAmended ==
  call.op = "generate_rsa_key"
    => /\ call.err # "none" => call.ret = "none"
       /\ CASE call.bits < MIN_RSA_KEY_BITS -> call.err = "FormatError"
            [] call.bits >= MIN_RSA_KEY_BITS /\ ~ConfigOK -> call.err = "CryptoError"
            [] call.bits >= MIN_RSA_KEY_BITS /\ ConfigOK /\ ~GoodBits(call.bits)
                 -> call.err = "ValueError"
            [] OTHER -> ReturnedFullKey

\* C9 happens: 2049 bits.
C9_Witness ==
  /\ call.op = "generate_rsa_key" /\ call.bits = MIN_RSA_KEY_BITS + 1
  /\ call.err = "ValueError" /\ call.ret = "none"

\* C10: for Ed25519 keys, verify_signature runs on the Ed25519 engine that
\* create_signature ran on, the one the Ed25519 engine configuration and
\* the detected availability select.
C10_SameEd25519Engine ==
  (/\ VerifiedOwnSignature /\ call.arg.keytype = "ed25519"
   /\ ProviderCalls(call.calls) # {})
    => /\ LibOf(call.calls) = sig.lib
       /\ LibOf(call.calls)
            = Ed25519Lib(/\ _ED25519_CRYPTO_LIBRARY = "pynacl"
                         /\ "pynacl" \in _available_crypto_libraries)

\* The key record the caller holds, as create_from_metadata_format and the
\* generate functions build it: keytype, keyid and the value of 'keyval'.
KeyRecord == [keytype |-> key.keytype, keyid |-> key.keyid,
              keyval |-> Deref(key.keyval)]
\* The metadata record the caller holds, as create_in_metadata_format
\* builds it.
MetaRecord == [keytype |-> meta.keytype, keyval |-> Deref(meta.keyval)]

\* C11: the records create_in_metadata_format and create_from_metadata_format
\* return share nothing with the arguments: when the caller, right after the
\* call, changes the 'keyval' dictionary it passed in, the returned record
\* stays as it was, and a returned key record's keyid still is the keyid
\* derived from its own keytype and keyval.
C11_FreshResults ==
  [][/\ (/\ call.op = "create_in_metadata_format" /\ call.from = "held"
          /\ call.ret = "meta"
          /\ call'.op = "mutate" /\ heap'[key.keyval] # heap[key.keyval])
         => MetaRecord' = MetaRecord
     /\ (/\ call.op = "create_from_metadata_format" /\ call.from = "held"
          /\ call.ret = "key"
          /\ call'.op = "mutate" /\ heap'[meta.keyval] # heap[meta.keyval])
         => /\ KeyRecord' = KeyRecord
            /\ key'.keyid = _get_keyid(key'.keytype, Deref(key'.keyval)).keyid]_vars

\* The engines of the crypto-provider routines a call ran.
EnginesOf(calls) == {calls[i].lib : i \in ProviderCalls(calls)}

\* C12: generate_ed25519_key generates the key pair with the Ed25519 engine
\* the configuration names, and with no other engine, whatever engines are
\* detected as available.
C12_ConfiguredEd25519Engine ==
  (call.op = "generate_ed25519_key" /\ call.ret = "key")
    => EnginesOf(call.calls) = {_ED25519_CRYPTO_LIBRARY}

\* The check_match calls of the format validator.
ShapeChecks ==
  {"RSAKEYBITS_SCHEMA", "KEYTYPE_SCHEMA", "KEYVAL_SCHEMA", "KEY_SCHEMA",
   "ANYKEY_SCHEMA", "SIGNATURE_SCHEMA"}
\* The call was given an argument its schema does not match.
IllFormedCall ==
  \/ call.op = "generate_rsa_key" /\ ~RSAKEYBITS_SCHEMA_matches(call.bits)
  \/ /\ call.op \in {"create_in_metadata_format", "create_from_metadata_format",
                      "create_signature", "verify_signature"}
     /\ call.from = "malformed"
  \/ call.op = "verify_signature" /\ call.sigfrom = "malformed"

\* C13: shape validation comes first: a call of generate_rsa_key,
\* create_in_metadata_format, create_from_metadata_format, create_signature
\* or verify_signature with an argument that its schema does not match fails
\* with FormatError and returns nothing, having made check_match calls only:
\* no availability check, no crypto-provider, canonicalizer or digest call,
\* whether the configuration is valid or not.
C13_ShapeValidationFirst ==
  IllFormedCall
    => /\ call.err = "FormatError" /\ call.ret = "none"
       /\ \A i \in DOMAIN call.calls : call.calls[i].fn \in ShapeChecks

\* C13 happens: under a configuration that does not pass the availability
\* check, create_signature is given a malformed key record, and
\* verify_signature a well-formed key record with a malformed signature.
C13_Witness ==
  /\ ~ConfigOK /\ IllFormedCall /\ call.err = "FormatError"
  /\ \/ call.op = "create_signature"
     \/ call.op = "verify_signature" /\ call.from = "held"

====
